---- MODULE Spec2Model ----
(***************************************************************************)
(* Model of the PD_TOL decorator (src/PDT.py): the wrapper that runs a     *)
(* host function over a DataFrame and, when it raises, probes every row    *)
(* alone, drops the rows whose probe raised, and tries again.              *)
(*                                                                         *)
(* A DataFrame is a sequence of rows; a row carries the identity of the    *)
(* record (id), its index label (lab) and how far the host function got    *)
(* with it (proc: 0 untouched, 1 touched by a call that raised, 2 fully    *)
(* processed by a call that returned).                                     *)
(***************************************************************************)
EXTENDS Integers, Sequences, FiniteSets, TLC

\* Largest number of rows of the caller's DataFrame.
MaxRecords == 3

VARIABLES
    pc,             \* position of the wrapper call
    argDf,          \* the value bound to the DataFrame parameter by the caller (None: no such argument)
    glob,           \* the value of the DataFrame binding in func.__globals__ (None: no such binding)
    callerObj,      \* the DataFrame object the caller handed over, as the caller sees it
    df,             \* local df
    dfIsCaller,     \* local df still refers to the caller's object
    df_in_globals,  \* local df_in_globals
    last_len,       \* local last_len
    bad_rows,       \* local bad_rows (index labels)
    k,              \* position of the for loop of line 53 in df.index (1-based)
    ret,            \* value returned to the caller
    raised,         \* exception that reached the caller ("none": no exception)
    outcome,        \* the exit the wrapper took
    hostCalls,      \* calls of func on the whole collection or with the caller's arguments
    probeCalls,     \* calls of func on a single row
    lastCall,       \* the arguments of the latest call of func
    hostResult,     \* what the latest full call of func returned and left in the object it received
    attempts,       \* whether each attempt on the whole collection returned (TRUE) or raised (FALSE)
    probeFailed,    \* ids of the records whose probe raised in the current round
    probeOk,        \* ids of the records whose probe returned in the current round
    probed,         \* the positions handed to df.iloc by the probes of the current round, in order
    removed,        \* ids of the records dropped by line 66 in the current round
    arg0,           \* argDf at the time of the call
    glob0,          \* glob at the time of the call
    opSolo,         \* host function: ids of the records it raises on whenever they are present
    opConflict,     \* host function: a group of records it raises on when all are present
    opStateful,     \* host function: raises or returns regardless of the rows (state outside the rows)
    opReturns       \* host function: returns the DataFrame it worked on (FALSE: returns None)

vars == << pc, argDf, glob, callerObj, df, dfIsCaller, df_in_globals, last_len, bad_rows, k,
           ret, raised, outcome, hostCalls, probeCalls, lastCall, hostResult, attempts,
           probeFailed, probeOk, probed, removed, arg0, glob0,
           opSolo, opConflict, opStateful, opReturns >>

----------------------------------------------------------------------------
\* Values

None == [kind |-> "None", rows |-> << >>]

DataFrame(rows) == [kind |-> "DataFrame", rows |-> rows]

\* isinstance(value, pd.DataFrame)
IsDataFrame(v) == v.kind = "DataFrame"

\* len(df)
Length(d) == Len(d.rows)

Ids(rows) == { rows[p].id : p \in 1..Len(rows) }

Pairs(S) == { g \in SUBSET S : Cardinality(g) = 2 }

\* The index labels a caller's DataFrame of n rows can carry.
IndexKinds == {"range", "reversed", "shifted", "duplicate"}

Label(kind, n, p) ==
    CASE kind = "range"     -> p - 1
      [] kind = "reversed"  -> n - p
      [] kind = "shifted"   -> p
      [] kind = "duplicate" -> 0

CallerRows(n, kind) ==
    [p \in 1..n |-> [id |-> p, lab |-> Label(kind, n, p), proc |-> 0]]

CallerFrames ==
    { DataFrame(CallerRows(n, kind)) : n \in 0..MaxRecords, kind \in IndexKinds }

\* A value a function without any DataFrame can return.
Scalar == [kind |-> "Scalar", rows |-> << >>]

NoCall == [kind |-> "none", args |-> "none", frame |-> None]

----------------------------------------------------------------------------
\* The host function

\* func raises on these rows.
HostRaises(rows) ==
    \/ \E p \in 1..Len(rows) : rows[p].id \in opSolo
    \/ opConflict # {} /\ opConflict \subseteq Ids(rows)

\* Whether a call of func on these rows returns (TRUE) or raises (FALSE).
HostOutcomes(rows) ==
    IF opStateful THEN BOOLEAN ELSE { ~HostRaises(rows) }

\* The rows of the object func received, after the call.
HostEffect(rows, ok) ==
    [p \in 1..Len(rows) |-> [rows[p] EXCEPT !.proc = IF ok THEN 2 ELSE 1]]

\* What func returns when it does not raise.
HostValue(rowsAfter) ==
    IF opReturns THEN DataFrame(rowsAfter) ELSE None

----------------------------------------------------------------------------
\* pandas operations

\* Lines 40 and 44 with df itself handed to func instead of a copy.
CopyShared(d) == [rows |-> d.rows, shared |-> TRUE]

\* df.copy(): the same rows in a new object.
Copy(d) == [rows |-> d.rows, shared |-> FALSE]

\* df.iloc[[i]] is defined for 0 <= i < len(df) and raises IndexError otherwise.
IlocInBounds(d, i) == i >= 0 /\ i < Length(d)

\* df.iloc[[i]].copy(): the row at position i, with its label.
Iloc(d, i) == << d.rows[i + 1] >>

\* The positions df.drop(labels) keeps.
Kept(rows, labels) == { p \in 1..Len(rows) : rows[p].lab \notin labels }

RECURSIVE SelectRows(_, _, _)
SelectRows(rows, keep, p) ==
    IF p > Len(rows) THEN << >>
    ELSE (IF p \in keep THEN << rows[p] >> ELSE << >>) \o SelectRows(rows, keep, p + 1)

\* df.drop(list(labels)): the rows whose label is not among labels, in order.
Drop(rows, labels) == SelectRows(rows, Kept(rows, labels), 1)

\* .reset_index(drop=True): labels 0..n-1.
ResetIndex(rows) == [p \in 1..Len(rows) |-> [rows[p] EXCEPT !.lab = p - 1]]

\* Line 66 with the result of drop not assigned to df.
ExcludeNotAssigned(d, labels) == d

\* Line 66: df.drop(list(bad_rows)).reset_index(drop=True).
Exclude(d, labels) == DataFrame(ResetIndex(Drop(d.rows, labels)))

----------------------------------------------------------------------------
\* Pieces of the wrapper

\* Lines 18-30 with the globals searched before the arguments.
SourceGlobalsFirst(a, g) ==
    IF IsDataFrame(g) THEN "glob" ELSE IF IsDataFrame(a) THEN "arg" ELSE "none"

\* Lines 18-30: the arguments are searched first, the globals only when no argument
\* is a DataFrame.
Source(a, g) ==
    IF IsDataFrame(a) THEN "arg" ELSE IF IsDataFrame(g) THEN "glob" ELSE "none"

\* Line 32 with the exception of func swallowed.
PropagateSwallowed(ok) == "none"

\* Line 32: an exception of func(*args, **kwargs) is not caught.
Propagate(ok) == IF ok THEN "none" ELSE "HostError"

\* Line 36: while last_len != len(df).
WhileGuard(last, d) == last # Length(d)

\* Line 42 with the binding not read back.
RereadNever(binding, d) == d

\* Line 42: df = func.__globals__[df_name].
Reread(binding, d) == binding

\* Lines 46-47 without the test for None.
AdoptAlways(value, d) == value

\* Lines 46-47 with the result of func never adopted.
AdoptNever(value, d) == d

\* Lines 46-47: if result is not None: df = result.
Adopt(value, d) == IF value # None THEN value ELSE d

\* Line 70 with the test for the empty collection left out.
IsExhaustedNever(d) == FALSE

\* Line 70: if len(df) == 0.
IsExhausted(d) == Length(d) = 0

----------------------------------------------------------------------------
\* The state at the time of the call.

Init ==
    /\ pc = "start"
    /\ \/ /\ argDf \in CallerFrames
          /\ glob \in {None, DataFrame(CallerRows(1, "range"))}
          /\ callerObj = argDf
       \/ /\ argDf = None
          /\ glob \in CallerFrames
          /\ callerObj = glob
       \/ /\ argDf = None
          /\ glob = None
          /\ callerObj = None
    /\ arg0 = argDf
    /\ glob0 = glob
    /\ opReturns \in BOOLEAN
    /\ opStateful \in BOOLEAN
    /\ IF opStateful \/ callerObj = None
         THEN opStateful /\ opSolo = {} /\ opConflict = {}
         ELSE /\ opSolo \in SUBSET Ids(callerObj.rows)
              /\ opConflict \in {{}} \cup Pairs(Ids(callerObj.rows))
    /\ df = None
    /\ dfIsCaller = FALSE
    /\ df_in_globals = FALSE
    /\ last_len = -1
    /\ bad_rows = {}
    /\ k = 1
    /\ ret = None
    /\ raised = "none"
    /\ outcome = "running"
    /\ hostCalls = 0
    /\ probeCalls = 0
    /\ lastCall = NoCall
    /\ hostResult = [ok |-> TRUE, value |-> None, left |-> None]
    /\ attempts = << >>
    /\ probeFailed = {}
    /\ probeOk = {}
    /\ probed = << >>
    /\ removed = {}

opVars == << opSolo, opConflict, opStateful, opReturns, arg0, glob0 >>

----------------------------------------------------------------------------
\* Lines 15-34: find the DataFrame among the arguments, then among the globals.
Resolve ==
    /\ pc = "start"
    /\ IF Source(argDf, glob) = "arg"
         THEN /\ df' = argDf
              /\ df_in_globals' = FALSE
              /\ dfIsCaller' = TRUE
              /\ pc' = "while"
         ELSE IF Source(argDf, glob) = "glob"
         THEN /\ df' = glob
              /\ df_in_globals' = TRUE
              /\ dfIsCaller' = TRUE
              /\ pc' = "while"
         ELSE /\ df' = None
              /\ df_in_globals' = FALSE
              /\ dfIsCaller' = FALSE
              /\ pc' = "fallback"
    /\ last_len' = -1
    /\ bad_rows' = {}
    /\ UNCHANGED << argDf, glob, callerObj, k, ret, raised, outcome, hostCalls, probeCalls,
                    lastCall, hostResult, attempts, probeFailed, probeOk, probed, removed, opVars >>

\* Line 32: no DataFrame anywhere: return func(*args, **kwargs).
Fallback ==
    /\ pc = "fallback"
    /\ \E ok \in HostOutcomes(<< >>) :
          /\ hostCalls' = hostCalls + 1
          /\ lastCall' = [kind |-> "plain", args |-> "caller", frame |-> None]
          /\ hostResult' = [ok |-> ok,
                            value |-> IF ok /\ opReturns THEN Scalar ELSE None,
                            left |-> None]
          /\ ret' = hostResult'.value
          /\ raised' = Propagate(ok)
          /\ outcome' = "fallback"
    /\ pc' = "done"
    /\ UNCHANGED << argDf, glob, callerObj, df, dfIsCaller, df_in_globals, last_len, bad_rows, k,
                    probeCalls, attempts, probeFailed, probeOk, probed, removed, opVars >>

\* Line 36: while last_len != len(df).
WhileTest ==
    /\ pc = "while"
    /\ IF WhileGuard(last_len, df)
         THEN pc' = "try" /\ outcome' = outcome
         ELSE pc' = "return" /\ outcome' = "stall"
    /\ UNCHANGED << argDf, glob, callerObj, df, dfIsCaller, df_in_globals, last_len, bad_rows, k,
                    ret, raised, hostCalls, probeCalls, lastCall, hostResult, attempts,
                    probeFailed, probeOk, probed, removed, opVars >>

\* Lines 37-52: one attempt on the whole collection.
Attempt ==
    /\ pc = "try"
    /\ last_len' = Length(df)
    /\ LET passed == Copy(df) IN
       \E ok \in HostOutcomes(passed.rows) :
          LET after == DataFrame(HostEffect(passed.rows, ok))
              value == IF ok THEN HostValue(after.rows) ELSE None
          IN
          /\ hostCalls' = hostCalls + 1
          /\ lastCall' = [kind |-> "batch",
                          args |-> IF df_in_globals THEN "caller" ELSE "bound",
                          frame |-> DataFrame(passed.rows)]
          /\ hostResult' = [ok |-> ok, value |-> value, left |-> after]
          /\ attempts' = Append(attempts, ok)
          /\ glob' = IF df_in_globals THEN after ELSE glob
          /\ callerObj' = IF passed.shared /\ dfIsCaller THEN after ELSE callerObj
          /\ argDf' = IF passed.shared /\ dfIsCaller /\ ~df_in_globals THEN after ELSE argDf
          /\ IF ok
               THEN /\ df' = IF df_in_globals THEN Reread(after, df)
                             ELSE Adopt(value, IF passed.shared THEN after ELSE df)
                    /\ dfIsCaller' = IF df_in_globals \/ value # None
                                       THEN passed.shared /\ dfIsCaller
                                       ELSE dfIsCaller
                    /\ outcome' = "success"
                    /\ pc' = "return"
                    /\ UNCHANGED << bad_rows, k, probeFailed, probeOk, probed, removed >>
               ELSE /\ df' = IF passed.shared THEN after ELSE df
                    /\ dfIsCaller' = dfIsCaller
                    /\ outcome' = outcome
                    /\ bad_rows' = {}
                    /\ k' = 1
                    /\ probeFailed' = {}
                    /\ probeOk' = {}
                    /\ probed' = << >>
                    /\ removed' = {}
                    /\ pc' = "probe"
    /\ UNCHANGED << df_in_globals, ret, raised, probeCalls, opVars >>

\* Lines 53-63: one iteration of the probing loop, for the label at position k of df.index.
Probe ==
    /\ pc = "probe"
    /\ k <= Length(df)
    /\ LET i == df.rows[k].lab IN
       IF ~IlocInBounds(df, i)
         THEN \* line 54 raises inside the except block: nothing catches it
              /\ raised' = "IndexError"
              /\ outcome' = "error"
              /\ pc' = "done"
              /\ UNCHANGED << glob, bad_rows, k, probeCalls, lastCall, probeFailed, probeOk, probed >>
         ELSE LET tmp == Iloc(df, i) IN
              \E ok \in HostOutcomes(tmp) :
                 LET after == DataFrame(HostEffect(tmp, ok)) IN
                 /\ probeCalls' = probeCalls + 1
                 /\ lastCall' = [kind |-> "probe",
                                 args |-> IF df_in_globals THEN "caller" ELSE "bound",
                                 frame |-> DataFrame(tmp)]
                 /\ glob' = IF df_in_globals THEN after ELSE glob
                 /\ bad_rows' = IF ok THEN bad_rows ELSE bad_rows \cup {i}
                 /\ probeFailed' = IF ok THEN probeFailed ELSE probeFailed \cup Ids(tmp)
                 /\ probeOk' = IF ok THEN probeOk \cup Ids(tmp) ELSE probeOk
                 /\ probed' = Append(probed, i)
                 /\ k' = k + 1
                 /\ UNCHANGED << raised, outcome, pc >>
    /\ UNCHANGED << argDf, callerObj, df, dfIsCaller, df_in_globals, last_len, ret,
                    hostCalls, hostResult, attempts, removed, opVars >>

\* Lines 64-73: after the probing loop.
Decide ==
    /\ pc = "probe"
    /\ k > Length(df)
    /\ IF bad_rows # {}
         THEN LET rest == Exclude(df, bad_rows) IN
              /\ df' = rest
              /\ dfIsCaller' = FALSE
              /\ removed' = Ids(df.rows) \ Ids(rest.rows)
              /\ IF IsExhausted(rest)
                   THEN /\ glob' = IF df_in_globals THEN rest ELSE glob
                        /\ ret' = None
                        /\ outcome' = "exhausted"
                        /\ pc' = "done"
                   ELSE /\ pc' = "while"
                        /\ UNCHANGED << glob, ret, outcome >>
         ELSE /\ outcome' = "abort"
              /\ pc' = "return"
              /\ UNCHANGED << df, dfIsCaller, removed, glob, ret >>
    /\ UNCHANGED << argDf, callerObj, df_in_globals, last_len, bad_rows, k, raised,
                    hostCalls, probeCalls, lastCall, hostResult, attempts,
                    probeFailed, probeOk, probed, opVars >>

\* Line 74: return df.
Return ==
    /\ pc = "return"
    /\ ret' = df
    /\ pc' = "done"
    /\ UNCHANGED << argDf, glob, callerObj, df, dfIsCaller, df_in_globals, last_len, bad_rows, k,
                    raised, outcome, hostCalls, probeCalls, lastCall, hostResult, attempts,
                    probeFailed, probeOk, probed, removed, opVars >>

Next ==
    \/ Resolve
    \/ Fallback
    \/ WhileTest
    \/ Attempt
    \/ Probe
    \/ Decide
    \/ Return

Spec == Init /\ [][Next]_vars

\* The wrapper is one sequential call: whenever a step is possible, it is taken.
FairSpec == Spec /\ WF_vars(Next)

----------------------------------------------------------------------------
\* Vocabulary of the properties

\* The collection the wrapper found at the time of the call.
Coll0 == IF IsDataFrame(arg0) THEN arg0 ELSE glob0

\* A collection was found (the retry loop runs).
Found == IsDataFrame(Coll0)

\* The collection carries the labels 0..n-1.
RangeIndexed(d) == \A p \in 1..Length(d) : d.rows[p].lab = p - 1

\* Records and contents of a collection, whatever its labels.
Content(rows) == [p \in 1..Len(rows) |-> [id |-> rows[p].id, proc |-> rows[p].proc]]

\* The host function's failure depends on single records only.
PerRecord == ~opStateful /\ opConflict = {}

\* The records of the caller's collection on which func returns when run alone, in order.
Survivors == SelectRows(Coll0.rows, { p \in 1..Length(Coll0) : Coll0.rows[p].id \notin opSolo }, 1)

\* The call has ended.
Ended == pc = "done"

----------------------------------------------------------------------------
\* C1. Per-record independence: for a host function that returns the collection it
\* produced and raises depending on single records only, and a caller's collection
\* indexed 0..n-1, the wrapper returns without error what func produces on the records
\* that succeed alone, in their order.
C1_PerRecordIndependence ==
    (Ended /\ Found /\ PerRecord /\ opReturns /\ RangeIndexed(Coll0))
        => /\ raised = "none"
           /\ IsDataFrame(ret)
           /\ Content(ret.rows) = Content(HostEffect(Survivors, TRUE))

\* C2. Irreproducible abort: when func (its failure a cross-record constraint) raises
\* on the whole collection and returns on every record probed alone, the caller gets
\* the exception of the batch call, no collection is returned and no record is excluded.
C2_IrreproducibleAbort ==
    (Ended /\ ~opStateful /\ attempts = << FALSE >> /\ probeFailed = {}
           /\ probeOk = Ids(Coll0.rows))
        => /\ raised = "HostError"
           /\ ~IsDataFrame(ret)
           /\ removed = {}

\* C3. Exhaustion: when every record of a caller's collection indexed 0..n-1 fails
\* alone, the wrapper returns an empty collection (not None) and raises nothing, in
\* both modes.
C3_Exhaustion ==
    (Ended /\ Found /\ ~opStateful /\ Length(Coll0) > 0 /\ opSolo = Ids(Coll0.rows)
           /\ RangeIndexed(Coll0))
        => /\ raised = "none"
           /\ ret = DataFrame(<< >>)

C5_OutcomeTrichotomy ==
    (Ended /\ Found /\ ~opStateful /\ RangeIndexed(Coll0))
        => \/ raised = "HostError"
           \/ /\ raised = "none"
              /\ \/ Len(attempts) > 0 /\ attempts[Len(attempts)]
                 \/ Length(ret) = 0

\* C6. In externally-bound mode, when the wrapper ends because func (its failure a
\* cross-record constraint) raised on the whole collection and no probe raised, the
\* external binding holds the collection (indexed 0..n-1) it held before the call.
C6_BindingRestoredOnAbort ==
    (Ended /\ df_in_globals /\ ~opStateful /\ RangeIndexed(Coll0) /\ outcome = "abort")
        => glob = glob0

\* C7. Termination bound: the call ends, and func is called on the whole collection
\* at most |C| + 1 times (indeed at most |C| times when C is not empty: an exclusion
\* that empties the collection ends the call without another attempt).
C7_TerminationBound ==
    /\ [](hostCalls <= Length(Coll0) + 1)
    /\ [](Length(Coll0) > 0 => hostCalls <= Length(Coll0))
    /\ <>Ended

\* A collection of two or more records took as many attempts as it has records.
C7_Witness ==
    /\ Ended /\ Found
    /\ Length(Coll0) >= 2
    /\ hostCalls = Length(Coll0)
    /\ Len(attempts) = hostCalls

\* C8. Monotonic shrink: while the rounds go on, no step lengthens the working
\* collection, the step that ends a round whose attempt raised and whose probing found
\* a faulty record shortens it, and a round never starts on a collection longer than
\* the one the round before started on (last_len).
C8_MonotonicShrink ==
    [][ (pc \in {"while", "try", "probe"} /\ outcome' # "success")
           => /\ Length(df') <= Length(df)
              /\ (pc = "probe" /\ k > Length(df) /\ bad_rows # {})
                    => Length(df') < Length(df)
              /\ (pc' = "try" /\ last_len' # -1)
                    => Length(df') <= last_len' ]_vars

\* A round has excluded some records and left others for the next round.
C8_Witness ==
    /\ pc = "while"
    /\ removed # {}
    /\ Length(df) > 0
    /\ Length(df) < last_len

\* C9. Exclusion soundness: the records removed in a round are records whose own probe
\* raised in that round.
C9_ExclusionSoundness == removed \subseteq probeFailed

\* C10. Fallback without a collection: with no DataFrame among the arguments nor among
\* the globals, func is called exactly once, with the caller's arguments, no probe is
\* made, the wrapper returns what func returned, and an exception of func reaches the
\* caller.
C10_Fallback ==
    (Ended /\ ~Found)
        => /\ hostCalls = 1
           /\ probeCalls = 0
           /\ attempts = << >>
           /\ lastCall = [kind |-> "plain", args |-> "caller", frame |-> None]
           /\ hostResult.ok => (raised = "none" /\ ret = hostResult.value)
           /\ ~hostResult.ok => raised = "HostError"

\* A call without any DataFrame ended with the exception of func.
C10_Witness ==
    /\ Ended /\ ~Found
    /\ outcome = "fallback"
    /\ ~hostResult.ok
    /\ raised = "HostError"

\* C11. In argument-bound mode the collection object the caller passed in is never
\* modified: whatever func does to the object it receives in an attempt or a probe,
\* the caller's object and the caller's argument keep the records and contents they
\* had before the call.
C11_CallerCollectionUntouched ==
    (IsDataFrame(arg0) /\ ~df_in_globals)
        => /\ callerObj = arg0
           /\ argDf = arg0

\* An argument-bound call ended after a failed attempt, probes and an exclusion, func
\* having changed the copies it received.
C11_Witness ==
    /\ Ended /\ IsDataFrame(arg0) /\ ~df_in_globals
    /\ Len(attempts) >= 2
    /\ probeCalls >= 2
    /\ Length(df) < Length(arg0)
    /\ hostResult.left # lastCall.frame
    /\ callerObj = arg0

\* C12. Resolution preference: when an argument is a DataFrame the wrapper works in
\* argument-bound mode, starts from the argument, calls func with the bound arguments
\* and leaves the external binding as it was, even when that binding holds a
\* DataFrame; the externally-bound mode is entered only when no argument is one.
C12_ArgumentPreferred ==
    /\ IsDataFrame(arg0)
          => /\ ~df_in_globals
             /\ glob = glob0
             /\ (pc = "while" /\ last_len = -1) => df = arg0
             /\ lastCall.args # "caller"
    /\ df_in_globals => ~IsDataFrame(arg0)

\* A call with a DataFrame argument and a DataFrame in the globals ended after a
\* failed attempt and probes.
C12_Witness ==
    /\ Ended
    /\ IsDataFrame(arg0) /\ IsDataFrame(glob0)
    /\ Len(attempts) >= 1 /\ ~attempts[1]
    /\ probeCalls >= 1
    /\ glob = glob0

\* C13. Single-pass isolation: when some records fail alone, others do not, and
\* nothing else makes func raise, the run is two attempts (the first raising, the
\* second returning) with one probing pass between them that probes the positions
\* 0, 1, ..., n-1 of the collection once each, in this order, and removes all the
\* faulty records at once.
C13_SinglePassIsolation ==
    (Ended /\ Found /\ PerRecord /\ opSolo # {} /\ Survivors # << >>)
        => /\ raised = "none"
           /\ attempts = << FALSE, TRUE >>
           /\ probeCalls = Length(Coll0)
           /\ probed = [p \in 1..Length(Coll0) |-> p - 1]
           /\ removed = opSolo

C15_ExhaustionStops ==
    /\ []((Found /\ removed # {} /\ Length(df) = 0)
            => /\ Ended
               /\ outcome = "exhausted"
               /\ raised = "none"
               /\ lastCall.kind = "probe"
               /\ df_in_globals => glob = DataFrame(<< >>))
    /\ [][ (Found /\ removed # {} /\ Length(df) = 0)
            => (hostCalls' = hostCalls /\ probeCalls' = probeCalls) ]_vars

\* An externally-bound call ended by exhaustion in its second round.
C15_Witness ==
    /\ Ended /\ df_in_globals /\ outcome = "exhausted"
    /\ Len(attempts) = 2
    /\ Length(glob0) >= 2
    /\ glob = DataFrame(<< >>)

\* C16. A failed attempt and the probes do not touch the working collection: from the
\* start of an attempt that raises to the end of the probing of the same round, df
\* keeps its rows and contents, whatever func did to the copy it received.
C16_WorkingCollectionUntouched ==
    [][ ((pc = "try" /\ pc' = "probe") \/ (pc = "probe" /\ k' = k + 1))
           => df' = df ]_vars

\* The probing of a round on two or more records is over; func changed the copy of
\* the failed attempt and the copies of the probes, and some probe raised.
C16_Witness ==
    /\ pc = "probe"
    /\ k > Length(df)
    /\ Length(df) >= 2
    /\ bad_rows # {}
    /\ hostResult.left # df
    /\ \A p \in 1..Length(df) : df.rows[p].proc = 0

\* C17. No progress stall: the loop never ends through its guard last_len == len(df);
\* a call that found a collection ends by an attempt that returned, by the abort after
\* a probing pass that found nothing, or by exhaustion; and a round that found faulty
\* records starts the next test of the guard with a changed length.
C17_NoProgressStall ==
    /\ outcome # "stall"
    /\ (Ended /\ Found) => outcome \in {"success", "abort", "exhausted"}
    /\ (pc = "while" /\ last_len # -1) => Length(df) # last_len

\* C18. Index compaction: at the start of every round, the first one on the caller's
\* collection included, and throughout its probing, the working collection carries
\* the labels 0..n-1, so that the label a probe uses as a position and the label the
\* exclusion drops denote the same record.
C18_IndexCompaction ==
    pc \in {"try", "probe"} => RangeIndexed(df)

\* C19. In argument-bound mode, when an attempt returns and func returned None, the
\* wrapper returns the working collection as it was before that attempt: the records
\* handed to func, without the changes func made to its copy, and not None.
C19_VoidResultKeepsCollection ==
    (Ended /\ ~df_in_globals /\ outcome = "success" /\ hostResult.value = None)
        => /\ raised = "none"
           /\ IsDataFrame(ret)
           /\ lastCall.kind = "batch"
           /\ ret = lastCall.frame
           /\ hostResult.left = DataFrame(HostEffect(ret.rows, TRUE))

\* An argument-bound call whose func returns None ended with a successful attempt on
\* the records left by an exclusion, func having changed its copy.
C19_Witness ==
    /\ Ended /\ ~df_in_globals /\ outcome = "success"
    /\ hostResult.value = None
    /\ attempts = << FALSE, TRUE >>
    /\ Length(ret) > 0
    /\ Length(ret) < Length(arg0)
    /\ hostResult.left # ret

====
